---- MODULE Spec2Model ----
(***************************************************************************)
(* A model of agents.py, the DataVex intelligence pipeline.                *)
(*                                                                         *)
(* run_intelligence(domain) calls six agents one after the other, each     *)
(* appending to one trace list, and assembles a report.  The two external  *)
(* calls (requests.get + BeautifulSoup, and the SerpAPI news search) are   *)
(* inputs: every outcome they can have is drawn with \E in the action that *)
(* makes the call.                                                         *)
(*                                                                         *)
(* Python strings that the code inspects (startswith, `in`, re.findall,    *)
(* lower, strip) are sequences of one-character strings, so that these     *)
(* operations are computed and not assumed.  Strings that the code only    *)
(* stores or compares whole (labels, trace texts) are TLA+ strings.        *)
(***************************************************************************)
EXTENDS Integers, Sequences, FiniteSets, TLC

VARIABLES
    SERPAPI_KEY,  \* the module-level configuration value (line 12)
    domain,       \* the argument of run_intelligence
    pc,           \* the statement of run_intelligence that runs next
    calls,        \* the agent functions run_intelligence has called so far
    trace,        \* the list every agent appends to
    recon,        \* locals of run_intelligence, Unbound until assigned
    infra,
    growth,
    fiscal,
    synthesis,
    outreach,
    report        \* the value run_intelligence returns

vars == <<SERPAPI_KEY, domain, pc, calls, trace, recon, infra, growth, fiscal,
          synthesis, outreach, report>>

(***************************************************************************)
(* Bounds of the model.                                                    *)
(***************************************************************************)
\* The most hiring phrases, and the most scale phrases, a fetched page holds;
\* also the largest mention count handed to synthesis_agent directly.
MaxMentions == 5

\* The longest news_results list the news search returns.
MaxNews == 2

\* The longest infra list handed to synthesis_agent directly.
MaxSignals == 2

(***************************************************************************)
(* Python values.                                                          *)
(***************************************************************************)
None == [type |-> "NoneType"]

Unbound == [type |-> "unbound local"]

\* The same for a local that will hold a list.
UnboundList == <<"unbound local">>

PyStr(b) == IF b THEN "True" ELSE "False"

Min(a, b) == IF a <= b THEN a ELSE b

Range(s) == {s[i] : i \in 1..Len(s)}

RECURSIVE Repeat(_, _)
Repeat(s, n) == IF n = 0 THEN <<>> ELSE s \o Repeat(s, n - 1)

(***************************************************************************)
(* str operations, on sequences of characters.                             *)
(***************************************************************************)
\* text[i : i + len(k)] == k
MatchesAt(k, text, i) ==
    /\ i + Len(k) - 1 <= Len(text)
    /\ \A j \in 1..Len(k) : text[i + j - 1] = k[j]

\* text.startswith(prefix)
StartsWith(text, prefix) == MatchesAt(prefix, text, 1)

\* k in text
Contains(k, text) == \E i \in 1..(Len(text) + 1) : MatchesAt(k, text, i)

\* any(k in text for k in keywords)
AnyIn(keywords, text) == \E n \in 1..Len(keywords) : Contains(keywords[n], text)

LowerChar(c) ==
    CASE c = "A" -> "a" [] c = "F" -> "f" [] c = "I" -> "i" [] c = "J" -> "j"
      [] c = "L" -> "l" [] c = "N" -> "n" [] c = "O" -> "o" [] c = "P" -> "p"
      [] c = "S" -> "s" [] c = "W" -> "w" [] OTHER -> c

\* text.lower()
Lower(text) == [i \in 1..Len(text) |-> LowerChar(text[i])]

\* text.strip()
RECURSIVE Strip(_)
Strip(text) ==
    IF text = <<>> THEN text
    ELSE IF Head(text) = " " THEN Strip(Tail(text))
    ELSE IF text[Len(text)] = " " THEN Strip(SubSeq(text, 1, Len(text) - 1))
    ELSE text

\* The length of the match of the pattern a1|a2|... at position i: the first
\* alternative that matches there wins; 0 when none does.
MatchLenAt(alts, text, i) ==
    LET hits == {n \in 1..Len(alts) : MatchesAt(alts[n], text, i)}
    IN  IF hits = {} THEN 0
        ELSE Len(alts[CHOOSE n \in hits : \A m \in hits : n <= m])

\* len(re.findall(pattern, text)): leftmost, non-overlapping matches, counted
\* from position i to the end by count[i].
FindallCount(alts, text) ==
    LET count[i \in 1..(Len(text) + 1)] ==
            IF i > Len(text) THEN 0
            ELSE IF MatchLenAt(alts, text, i) > 0
                 THEN 1 + count[i + MatchLenAt(alts, text, i)]
                 ELSE count[i + 1]
    IN  count[1]

(***************************************************************************)
(* Literals of the source.                                                 *)
(***************************************************************************)
HttpPrefix == <<"h","t","t","p">>

HttpsScheme == <<"h","t","t","p","s",":","/","/">>

DirectCloudKeywords ==
    << <<"a","w","s">>, <<"g","c","p">>, <<"a","z","u","r","e">>,
       <<"k","u","b","e","r","n","e","t","e","s">>, <<"d","o","c","k","e","r">> >>

SaasKeywords ==
    << <<"a","p","i">>, <<"p","l","a","t","f","o","r","m">>,
       <<"p","a","y","m","e","n","t">>, <<"t","e","s","t","i","n","g">>,
       <<"d","e","v","e","l","o","p","e","r">>, <<"c","l","o","u","d">> >>

HiringPattern ==
    << <<"h","i","r","i","n","g">>, <<"c","a","r","e","e","r","s">>,
       <<"j","o","b","s">>, <<"j","o","i","n"," ","u","s">> >>

ScalePattern ==
    << <<"g","r","o","w","i","n","g">>, <<"e","x","p","a","n","d","i","n","g">>,
       <<"s","c","a","l","e">>, <<"r","a","p","i","d"," ","g","r","o","w","t","h">> >>

FundingWord == <<"f","u","n","d","i","n","g">>

LayoffWord == <<"l","a","y","o","f","f">>

ExplicitCloudStack == "Explicit Cloud Stack"

InferredCloudHeavySaaS == "Inferred Cloud-Heavy SaaS"

FallbackWhyNow == "limited timing signals"

RawPageSentinel ==
    [status |-> 0, title |-> <<"U","n","k","n","o","w","n">>, text |-> <<>>,
     headers |-> <<>>]

\* One entry of the trace: "<agent>: <msg>" with the values formatted into it.
Entry(agent, msg, nums, strs) ==
    [agent |-> agent, msg |-> msg, nums |-> nums, strs |-> strs]

\* Lines 222-229: the statements of run_intelligence, in program order.
PipelineGrowthBeforeInfra ==
    <<"recon", "growth", "infra", "fiscal", "synthesis", "outreach", "return">>

Pipeline == <<"recon", "infra", "growth", "fiscal", "synthesis", "outreach", "return">>

\* The statement that follows `step`.
After(step) ==
    LET i == CHOOSE n \in 1..Len(Pipeline) : Pipeline[n] = step
    IN  IF i < Len(Pipeline) THEN Pipeline[i + 1] ELSE "done"

(***************************************************************************)
(* The inputs: what the caller passes and what the two external calls do.  *)
(***************************************************************************)
Domains ==
    { <<"a","c","m","e",".","c","o","m">>,
      <<"h","t","t","p",":","/","/","a","c","m","e",".","i","o">> }

ApiKeys == {"", "serpapi-key"}

Timestamps == {"2024-05-01T09:00:00", "2024-05-01T09:00:07"}

\* Visible page texts, as soup.get_text() gives them: some hiring phrases, some
\* scale phrases, and optionally a direct-stack word and a SaaS word.
PageTexts ==
    { Repeat(<<"J","o","b","s"," ">>, h) \o Repeat(<<"s","c","a","l","e"," ">>, s)
        \o (IF aws THEN <<"A","W","S"," ">> ELSE <<>>)
        \o (IF api THEN <<"O","p","e","n"," ","A","P","I"," ">> ELSE <<>>) :
      h \in 0..MaxMentions, s \in 0..MaxMentions, aws \in BOOLEAN, api \in BOOLEAN }

ResponseHeaders == <<"{","'","S","e","r","v","e","r","'",":"," ","'","N","g","i","n","x","'","}">>

\* soup.title: None, or the <title> tag with its children.
TitleTag(contents) == [name |-> "title", contents |-> contents]

PageTitle == TitleTag(<< <<" ","A","c","m","e"," ","I","n","c"," ">> >>)

\* Exceptions requests.get raises (all subclasses of Exception).
RequestExceptions == {"ConnectionError", "Timeout"}

\* What requests.get(url) and BeautifulSoup(response.content) do: raise, or
\* give a response and its parse.
FetchOutcomes ==
    { [raises |-> e, status_code |-> 0, title |-> None, get_text |-> <<>>,
       headers |-> <<>>] : e \in RequestExceptions }
    \cup { [raises |-> "", status_code |-> 200, title |-> PageTitle, get_text |-> t,
            headers |-> ResponseHeaders] : t \in PageTexts }
    \cup { [raises |-> "", status_code |-> 404, title |-> None, get_text |-> t,
            headers |-> ResponseHeaders] : t \in PageTexts }
    \cup { [raises |-> "", status_code |-> 200, title |-> TitleTag(<<>>),
            get_text |-> <<"A","W","S"," ">>, headers |-> ResponseHeaders] }

NewsTitles ==
    { <<"A","c","m","e"," ","r","a","i","s","e","s"," ","F","u","n","d","i","n","g">>,
      <<"L","a","y","o","f","f","s"," ","a","t"," ","A","c","m","e">>,
      <<"A","c","m","e"," ","l","a","u","n","c","h">> }

\* One element of news_results: a dict with a "title", or one without.
NewsItems == { [title |-> t] : t \in NewsTitles } \cup { [link |-> "https://news"] }

RECURSIVE SeqsUpTo(_, _)
SeqsUpTo(S, n) ==
    IF n = 0 THEN { <<>> }
    ELSE LET shorter == SeqsUpTo(S, n - 1)
         IN  shorter \cup { Append(q, x) : q \in shorter, x \in S }

\* What GoogleSearch(params).get_dict() does: raise, or give a dict that has
\* a "news_results" list or has none.
SearchOutcomes ==
    { [raises |-> "HTTPError", results |-> [error |-> "unreachable"]] }
    \cup { [raises |-> "", results |-> [error |-> "Invalid API key"]] }
    \cup { [raises |-> "", results |-> [news_results |-> n]] :
           n \in SeqsUpTo(NewsItems, MaxNews) }

(***************************************************************************)
(* recon_agent                                                             *)
(***************************************************************************)
\* Lines 28-31: the URL fetched.
Url(d) == IF ~StartsWith(d, HttpPrefix) THEN HttpsScheme \o d ELSE d

\* Lines 34-35: whatever the URL, the fetch and parse may have any outcome.
RequestsGet(url) == FetchOutcomes

\* tag.string: the tag's only child, and None when it has not exactly one.
HasString(tag) == Len(tag.contents) = 1

\* The exception lines 34-47 raise on this outcome, "" when they raise none:
\* requests.get raises, or soup.title.string is None and .strip() fails.
ReconRaises(out) ==
    IF out.raises # "" THEN out.raises
    ELSE IF out.title # None /\ ~HasString(out.title) THEN "AttributeError"
    ELSE ""

\* Line 49, `except Exception`: every exception of the try body is caught.
ReconCatchesRequestErrorsOnly(e) == e \in RequestExceptions

ReconCatches(e) == e \in RequestExceptions \cup {"AttributeError"}

\* Lines 35-47: the page returned and the entry logged when nothing raises.
ReconSuccess(tr, out) ==
    [ret |-> [status |-> out.status_code,
              title |-> IF out.title # None THEN Strip(out.title.contents[1])
                        ELSE <<"U","n","k","n","o","w","n">>,
              text |-> Lower(out.get_text),
              headers |-> Lower(out.headers)],
     trace |-> Append(tr, Entry("Recon Agent", "Status", <<out.status_code>>, <<>>))]

\* Lines 49-51: the handler.
ReconFailedUnlogged(tr, e) == [ret |-> RawPageSentinel, trace |-> tr]

ReconFailedStaleText(tr, e) ==
    [ret |-> [RawPageSentinel EXCEPT !.text = <<"a","p","i">>],
     trace |-> Append(tr, Entry("Recon Agent", "Failed", <<>>, <<e>>))]

ReconFailed(tr, e) ==
    [ret |-> RawPageSentinel,
     trace |-> Append(tr, Entry("Recon Agent", "Failed", <<>>, <<e>>))]

\* recon = recon_agent(domain, trace), line 222.  An exception the handler
\* does not catch leaves run_intelligence: pc = "raised".
recon_agent ==
    /\ pc = "recon"
    /\ \E out \in RequestsGet(Url(domain)) :
         LET started == Append(trace, Entry("Recon Agent", "Starting website scan",
                                            <<>>, <<>>))
             e == ReconRaises(out)
             r == IF e = "" THEN ReconSuccess(started, out) ELSE ReconFailed(started, e)
         IN  IF e # "" /\ ~ReconCatches(e)
             THEN /\ pc' = "raised"
                  /\ trace' = started
                  /\ recon' = recon
             ELSE /\ pc' = After("recon")
                  /\ trace' = r.trace
                  /\ recon' = r.ret
    /\ calls' = Append(calls, "recon_agent")
    /\ UNCHANGED <<SERPAPI_KEY, domain, infra, growth, fiscal, synthesis, outreach, report>>

(***************************************************************************)
(* infra_agent and growth_agent                                            *)
(***************************************************************************)
\* Lines 62-70: the labels detected, in the order of the two tests.
InfraSignals(text) ==
    (IF AnyIn(DirectCloudKeywords, text) THEN <<ExplicitCloudStack>> ELSE <<>>)
    \o (IF AnyIn(SaasKeywords, text) THEN <<InferredCloudHeavySaaS>> ELSE <<>>)

\* Lines 57-73: the list returned and the trace after the call.
InfraAgentLogsResultOnly(rc, tr) ==
    LET signals == InfraSignals(rc.text)
    IN  [ret |-> signals,
         trace |-> Append(tr, Entry("Infrastructure Agent", "Found", <<>>, signals))]

InfraAgentResult(rc, tr) ==
    LET signals == InfraSignals(rc.text)
    IN  [ret |-> signals,
         trace |-> tr \o << Entry("Infrastructure Agent", "Detecting cloud stack",
                                  <<>>, <<>>),
                            Entry("Infrastructure Agent", "Found", <<>>, signals) >>]

\* infra = infra_agent(recon, trace), line 223.
infra_agent ==
    /\ pc = "infra"
    /\ LET r == InfraAgentResult(recon, trace)
       IN  /\ infra' = r.ret
           /\ trace' = r.trace
    /\ pc' = After("infra")
    /\ calls' = Append(calls, "infra_agent")
    /\ UNCHANGED <<SERPAPI_KEY, domain, recon, growth, fiscal, synthesis, outreach, report>>

\* Lines 79-92: the counts returned and the trace after the call.
GrowthAgentResult(rc, tr) ==
    LET hiring_mentions == FindallCount(HiringPattern, rc.text)
        scale_mentions == FindallCount(ScalePattern, rc.text)
    IN  [ret |-> [hiring_mentions |-> hiring_mentions,
                  scale_mentions |-> scale_mentions],
         trace |-> tr \o << Entry("Growth Agent", "Checking hiring & expansion signals",
                                  <<>>, <<>>),
                            Entry("Growth Agent", "hiring, scale",
                                  <<hiring_mentions, scale_mentions>>, <<>>) >>]

\* growth = growth_agent(recon, trace), line 224.
growth_agent ==
    /\ pc = "growth"
    /\ LET r == GrowthAgentResult(recon, trace)
       IN  /\ growth' = r.ret
           /\ trace' = r.trace
    /\ pc' = After("growth")
    /\ calls' = Append(calls, "growth_agent")
    /\ UNCHANGED <<SERPAPI_KEY, domain, recon, infra, fiscal, synthesis, outreach, report>>

(***************************************************************************)
(* fiscal_agent                                                            *)
(***************************************************************************)
\* any(word in n["title"].lower() for n in news), lines 118-119: "True",
\* "False", or "KeyError" when an item without a title is reached first.
RECURSIVE AnyTitle(_, _)
AnyTitle(word, news) ==
    IF news = <<>> THEN "False"
    ELSE IF "title" \notin DOMAIN Head(news) THEN "KeyError"
    ELSE IF Contains(word, Lower(Head(news).title)) THEN "True"
    ELSE AnyTitle(word, Tail(news))

\* Lines 113-127: the try body on one outcome of the search, and the bare
\* except that turns every exception into the default.
FiscalSearch(tr, out) ==
    LET news == IF "news_results" \in DOMAIN out.results
                THEN out.results.news_results ELSE <<>>
        funding == AnyTitle(FundingWord, news)
        layoffs == AnyTitle(LayoffWord, news)
        raised == \/ out.raises # ""
                  \/ funding = "KeyError"
                  \/ layoffs = "KeyError"
    IN  IF raised
        THEN [ret |-> [funding |-> FALSE, layoffs |-> FALSE],
              trace |-> Append(tr, Entry("Fiscal Agent", "News fetch failed", <<>>, <<>>))]
        ELSE [ret |-> [funding |-> funding = "True", layoffs |-> layoffs = "True"],
              trace |-> Append(tr, Entry("Fiscal Agent", "funding, layoffs", <<>>,
                                         <<funding, layoffs>>))]

\* Lines 101-103: no key configured.
FiscalUnconfigured(tr) ==
    [ret |-> [funding |-> FALSE, layoffs |-> FALSE],
     trace |-> Append(tr, Entry("Fiscal Agent", "SerpAPI not configured", <<>>, <<>>))]

\* fiscal = fiscal_agent(domain, trace), line 225.
fiscal_agent ==
    /\ pc = "fiscal"
    /\ \E out \in SearchOutcomes :
         LET started == Append(trace, Entry("Fiscal Agent",
                                            "Checking funding/layoff signals", <<>>, <<>>))
             r == IF SERPAPI_KEY = "" THEN FiscalUnconfigured(started)
                  ELSE FiscalSearch(started, out)
         IN  /\ fiscal' = r.ret
             /\ trace' = r.trace
    /\ pc' = After("fiscal")
    /\ calls' = Append(calls, "fiscal_agent")
    /\ UNCHANGED <<SERPAPI_KEY, domain, recon, infra, growth, synthesis, outreach, report>>

(***************************************************************************)
(* synthesis_agent                                                         *)
(***************************************************************************)
\* Lines 139-140.
InfraBonus(inf) == IF inf # <<>> THEN 25 ELSE 0

\* Lines 143-146.
HiringBonusAdditive(h) == (IF h > 3 THEN 25 ELSE 0) + (IF h > 0 THEN 15 ELSE 0)

HiringBonus(h) == IF h > 3 THEN 25 ELSE IF h > 0 THEN 15 ELSE 0

\* Lines 148-149.
ScaleBonus(s) == IF s > 2 THEN 15 ELSE 0

\* Lines 152-155.
FiscalBonus(fs) == (IF fs.funding THEN 20 ELSE 0) + (IF fs.layoffs THEN 10 ELSE 0)

\* Lines 157-158.
InferredBonus(inf) == IF InferredCloudHeavySaaS \in Range(inf) THEN 10 ELSE 0

\* Line 160: score = min(score, 100).
ClampMissing(score) == score

Clamp(score) == Min(score, 100)

\* Lines 136-160.
Score(inf, gr, fs) ==
    Clamp(InfraBonus(inf) + HiringBonus(gr.hiring_mentions)
          + ScaleBonus(gr.scale_mentions) + FiscalBonus(fs) + InferredBonus(inf))

\* Line 162.
RecommendAbove50(score) == IF score > 50 THEN "YES" ELSE "NO"

Recommend(score) == IF score >= 50 THEN "YES" ELSE "NO"

\* ", ".join(parts)
RECURSIVE Join(_)
Join(parts) ==
    IF parts = <<>> THEN ""
    ELSE IF Len(parts) = 1 THEN parts[1]
    ELSE parts[1] \o ", " \o Join(Tail(parts))

\* Lines 166-178.
WhyNowInfraFirst(inf, gr, fs) ==
    LET why_now ==
            (IF inf # <<>> THEN <<"cloud-heavy architecture">> ELSE <<>>)
            \o (IF gr.hiring_mentions > 0 THEN <<"active hiring surge">> ELSE <<>>)
            \o (IF fs.funding THEN <<"recent funding event">> ELSE <<>>)
    IN  IF why_now # <<>> THEN Join(why_now) ELSE FallbackWhyNow

WhyNow(inf, gr, fs) ==
    LET why_now ==
            (IF gr.hiring_mentions > 0 THEN <<"active hiring surge">> ELSE <<>>)
            \o (IF inf # <<>> THEN <<"cloud-heavy architecture">> ELSE <<>>)
            \o (IF fs.funding THEN <<"recent funding event">> ELSE <<>>)
    IN  IF why_now # <<>> THEN Join(why_now) ELSE FallbackWhyNow

\* Lines 133-179: the dict returned and the trace after the call.
SynthesisAgentResult(inf, gr, fs, tr) ==
    LET score == Score(inf, gr, fs)
        recommendation == Recommend(score)
    IN  [ret |-> [score |-> score, recommendation |-> recommendation,
                  why_now |-> WhyNow(inf, gr, fs)],
         trace |-> tr \o << Entry("Synthesis Agent", "Calculating strategic scores",
                                  <<>>, <<>>),
                            Entry("Synthesis Agent", "Score, Verdict", <<score>>,
                                  <<recommendation>>) >>]

\* synthesis = synthesis_agent(infra, growth, fiscal, trace), line 226.
synthesis_agent ==
    /\ pc = "synthesis"
    /\ LET r == SynthesisAgentResult(infra, growth, fiscal, trace)
       IN  /\ synthesis' = r.ret
           /\ trace' = r.trace
    /\ pc' = After("synthesis")
    /\ calls' = Append(calls, "synthesis_agent")
    /\ UNCHANGED <<SERPAPI_KEY, domain, recon, infra, growth, fiscal, outreach, report>>

(***************************************************************************)
(* outreach_agent                                                          *)
(***************************************************************************)
\* Lines 192-207 and 212: the template with the two values put into it.
Email(d, why_now) ==
    [template |-> "Subject: Supporting {domain}'s Infrastructure at Scale ... We noticed signs of {why_now} at {domain}. ... DataVex Team",
     domain |-> d, why_now |-> why_now]

\* Lines 185-213: the value returned and the trace after the call.
OutreachAgentAlwaysDrafts(d, syn, tr) ==
    [ret |-> [target_role |-> "CTO", angle |-> "Infrastructure Scale Optimization",
              draft_email |-> Email(d, syn.why_now)],
     trace |-> Append(tr, Entry("Outreach Agent", "Generating CTO-focused pitch",
                                <<>>, <<>>))]

OutreachAgentResult(d, syn, tr) ==
    IF syn.recommendation = "NO"
    THEN [ret |-> None,
          trace |-> Append(tr, Entry("Outreach Agent", "Skipped", <<>>, <<>>))]
    ELSE [ret |-> [target_role |-> "CTO", angle |-> "Infrastructure Scale Optimization",
                   draft_email |-> Email(d, syn.why_now)],
          trace |-> Append(tr, Entry("Outreach Agent", "Generating CTO-focused pitch",
                                     <<>>, <<>>))]

\* outreach = outreach_agent(domain, synthesis, trace), line 227.
outreach_agent ==
    /\ pc = "outreach"
    /\ LET r == OutreachAgentResult(domain, synthesis, trace)
       IN  /\ outreach' = r.ret
           /\ trace' = r.trace
    /\ pc' = After("outreach")
    /\ calls' = Append(calls, "outreach_agent")
    /\ UNCHANGED <<SERPAPI_KEY, domain, recon, infra, growth, fiscal, synthesis, report>>

(***************************************************************************)
(* run_intelligence                                                        *)
(***************************************************************************)
\* round(n / d, 2), in hundredths.
RoundHundredths(n, d) == (200 * n + d) \div (2 * d)

\* Lines 229-248: the dict returned.
Report(ts) ==
    [company_dossier |->
        [domain |-> domain, title |-> recon.title, infrastructure |-> infra,
         growth_signals |-> growth, fiscal_signals |-> fiscal,
         analysis_timestamp |-> ts],
     strategic_analysis |->
        [why_now |-> synthesis.why_now, lead_score |-> synthesis.score],
     verdict |->
        [recommendation |-> synthesis.recommendation,
         confidence_hundredths |-> RoundHundredths(synthesis.score, 100)],
     outreach_strategy |-> outreach,
     agent_trace |-> trace]

\* The return statement; datetime.now() is an input.
run_intelligence ==
    /\ pc = "return"
    /\ \E ts \in Timestamps : report' = Report(ts)
    /\ pc' = After("return")
    /\ UNCHANGED <<SERPAPI_KEY, domain, calls, trace, recon, infra, growth, fiscal,
                   synthesis, outreach>>

(***************************************************************************)
(* The pipeline: one call of run_intelligence.                             *)
(***************************************************************************)
\* Line 220, with the argument and the configuration any of their values.
Init ==
    /\ SERPAPI_KEY \in ApiKeys
    /\ domain \in Domains
    /\ pc = Pipeline[1]
    /\ calls = <<>>
    /\ trace = <<>>
    /\ recon = Unbound
    /\ infra = UnboundList
    /\ growth = Unbound
    /\ fiscal = Unbound
    /\ synthesis = Unbound
    /\ outreach = Unbound
    /\ report = Unbound

Next ==
    \/ recon_agent
    \/ infra_agent
    \/ growth_agent
    \/ fiscal_agent
    \/ synthesis_agent
    \/ outreach_agent
    \/ run_intelligence

Spec == Init /\ [][Next]_vars

\* The calls are sequential and each returns: a step that can run does run.
FairSpec == Spec /\ WF_vars(Next)

(***************************************************************************)
(* synthesis_agent and outreach_agent called directly on any signals.      *)
(***************************************************************************)
SignalLabels == {ExplicitCloudStack, InferredCloudHeavySaaS}

SynInit ==
    /\ SERPAPI_KEY = ""
    /\ domain \in Domains
    /\ pc = "synthesis"
    /\ calls = <<>>
    /\ trace = <<>>
    /\ recon = Unbound
    /\ infra \in SeqsUpTo(SignalLabels, MaxSignals)
    /\ growth \in [hiring_mentions : 0..MaxMentions, scale_mentions : 0..MaxMentions]
    /\ fiscal \in [funding : BOOLEAN, layoffs : BOOLEAN]
    /\ synthesis = Unbound
    /\ outreach = Unbound
    /\ report = Unbound

SynNext ==
    \/ synthesis_agent
    \/ outreach_agent

SynSpec == SynInit /\ [][SynNext]_vars

(***************************************************************************)
(* recon_agent, infra_agent and growth_agent called directly, on a trace   *)
(* that may already hold an entry.                                         *)
(***************************************************************************)
PriorTraces == { <<>>, << Entry("Caller", "earlier entry", <<>>, <<>>) >> }

\* The values recon_agent can return.
RawPages ==
    { RawPageSentinel }
    \cup { ReconSuccess(<<>>, out).ret : out \in {o \in FetchOutcomes : ReconRaises(o) = ""} }

CallInit ==
    /\ SERPAPI_KEY = ""
    /\ domain \in Domains
    /\ pc \in {"recon", "infra", "growth"}
    /\ calls = <<>>
    /\ trace \in PriorTraces
    /\ recon \in (IF pc = "recon" THEN {Unbound} ELSE RawPages)
    /\ infra = UnboundList
    /\ growth = Unbound
    /\ fiscal = Unbound
    /\ synthesis = Unbound
    /\ outreach = Unbound
    /\ report = Unbound

CallNext ==
    \/ recon_agent
    \/ infra_agent
    \/ growth_agent

CallSpec == CallInit /\ [][CallNext]_vars

(***************************************************************************)
(* Properties.                                                             *)
(***************************************************************************)
Called(f) == f \in Range(calls)

IsPrefix(s, t) == Len(s) <= Len(t) /\ SubSeq(t, 1, Len(s)) = s

HasEntry(tr, agent, msg) ==
    \E i \in 1..Len(tr) : tr[i].agent = agent /\ tr[i].msg = msg

FetchFailed == HasEntry(trace, "Recon Agent", "Failed")

NewsFailed == HasEntry(trace, "Fiscal Agent", "News fetch failed")

ReportKeys ==
    {"company_dossier", "strategic_analysis", "verdict", "outreach_strategy",
     "agent_trace"}

StepOrder ==
    <<"recon_agent", "infra_agent", "growth_agent", "fiscal_agent",
      "synthesis_agent", "outreach_agent">>

\* C1: whatever the domain and whatever the page fetch and the news search do
\* (succeed, raise, or the search is unconfigured), run_intelligence never lets
\* an exception out, it does return, and the report it returns has the five
\* top-level keys.
C1_AlwaysReturnsReport ==
    /\ [](pc # "raised")
    /\ [](pc = "done" => ReportKeys \subseteq DOMAIN report)
    /\ <>(pc = "done")

\* A report was returned although the title lookup raised inside the fetch and
\* the configured news search failed too.
C1_Witness ==
    /\ pc = "done"
    /\ HasEntry(report.agent_trace, "Recon Agent", "Failed")
    /\ \E i \in 1..Len(trace) : trace[i].strs = <<"AttributeError">>
    /\ SERPAPI_KEY # ""
    /\ NewsFailed
    /\ DOMAIN report = ReportKeys

AllSignalsMaximal ==
    /\ SignalLabels \subseteq Range(infra)
    /\ growth.hiring_mentions > 3
    /\ growth.scale_mentions > 2
    /\ fiscal.funding
    /\ fiscal.layoffs

\* C2: for every infra list, every pair of mention counts and every pair of
\* fiscal booleans, the score synthesis_agent returns is an integer from 0 to
\* 100; with every signal maximal (raw sum 105) it is 100.
C2_ScoreInRange ==
    Called("synthesis_agent") =>
        /\ synthesis.score \in 0..100
        /\ AllSignalsMaximal => synthesis.score = 100

C2_Witness ==
    /\ Called("synthesis_agent")
    /\ AllSignalsMaximal
    /\ synthesis.score = 100

\* C3: the recommendation synthesis_agent returns is "YES" exactly when the
\* score it returns is at least 50 and "NO" otherwise, and the report pairs
\* verdict.recommendation with strategic_analysis.lead_score the same way.
C3_YesIffScoreAtLeast50 ==
    /\ Called("synthesis_agent") =>
          /\ synthesis.recommendation \in {"YES", "NO"}
          /\ synthesis.recommendation = "YES" <=> synthesis.score >= 50
    /\ pc = "done" =>
          /\ report.verdict.recommendation \in {"YES", "NO"}
          /\ report.verdict.recommendation = "YES"
                <=> report.strategic_analysis.lead_score >= 50

\* The boundary: a report with lead_score exactly 50 and verdict YES.
C3_Witness ==
    /\ pc = "done"
    /\ report.strategic_analysis.lead_score = 50
    /\ report.verdict.recommendation = "YES"

IsDraft(o) ==
    /\ o # None
    /\ o.target_role = "CTO"
    /\ o.angle = "Infrastructure Scale Optimization"
    /\ "draft_email" \in DOMAIN o

\* C4: in every returned report outreach_strategy is a draft (target_role
\* "CTO", angle "Infrastructure Scale Optimization", a draft_email) exactly when
\* verdict.recommendation is "YES"; when it is "NO" outreach_strategy is None
\* and the trace holds the entry saying the outreach step was skipped.
C4_DraftIffYes ==
    pc = "done" =>
        /\ IsDraft(report.outreach_strategy) <=> report.verdict.recommendation = "YES"
        /\ report.verdict.recommendation = "NO" =>
              /\ report.outreach_strategy = None
              /\ HasEntry(report.agent_trace, "Outreach Agent", "Skipped")
        /\ report.verdict.recommendation = "YES" =>
              ~HasEntry(report.agent_trace, "Outreach Agent", "Skipped")

C4_Witness ==
    /\ pc = "done"
    /\ report.verdict.recommendation = "NO"
    /\ report.outreach_strategy = None
    /\ HasEntry(report.agent_trace, "Outreach Agent", "Skipped")
    /\ report.strategic_analysis.lead_score = 45

\* The raw sum of C5, from the inputs of the call.
RawSum ==
    (IF Len(infra) > 0 THEN 25 ELSE 0)
    + (IF growth.hiring_mentions > 3 THEN 25
       ELSE IF growth.hiring_mentions > 0 THEN 15 ELSE 0)
    + (IF growth.scale_mentions > 2 THEN 15 ELSE 0)
    + (IF fiscal.funding THEN 20 ELSE 0)
    + (IF fiscal.layoffs THEN 10 ELSE 0)
    + (IF \E i \in 1..Len(infra) : infra[i] = "Inferred Cloud-Heavy SaaS" THEN 10 ELSE 0)

Scenario1 ==
    /\ infra = <<"Explicit Cloud Stack">>
    /\ growth = [hiring_mentions |-> 5, scale_mentions |-> 0]
    /\ fiscal = [funding |-> FALSE, layoffs |-> FALSE]

Scenario3 ==
    /\ infra = <<"Inferred Cloud-Heavy SaaS">>
    /\ growth = [hiring_mentions |-> 1, scale_mentions |-> 3]
    /\ fiscal = [funding |-> TRUE, layoffs |-> FALSE]

\* C5: the score synthesis_agent returns is min(100, S), S being 25 for a
\* non-empty infra, plus 25 for more than 3 hiring mentions or else 15 for more
\* than 0, plus 15 for more than 2 scale mentions, plus 20 for funding, plus 10
\* for layoffs, plus 10 for the inferred-SaaS label; scenario 1 scores 50 and
\* scenario 3 scores 85.
C5_ScoreIsClampedSum ==
    Called("synthesis_agent") =>
        /\ synthesis.score = (IF RawSum < 100 THEN RawSum ELSE 100)
        /\ Scenario1 => synthesis.score = 50
        /\ Scenario3 => synthesis.score = 85

C5_Witness ==
    /\ Called("synthesis_agent")
    /\ Scenario3
    /\ synthesis.score = 85

\* The why_now string of C6, written out for each of the eight cases.
ExpectedWhyNow ==
    LET h == growth.hiring_mentions > 0
        c == Len(infra) > 0
        f == fiscal.funding
    IN  CASE h /\ c /\ f ->
                "active hiring surge, cloud-heavy architecture, recent funding event"
          [] h /\ c /\ ~f -> "active hiring surge, cloud-heavy architecture"
          [] h /\ ~c /\ f -> "active hiring surge, recent funding event"
          [] h /\ ~c /\ ~f -> "active hiring surge"
          [] ~h /\ c /\ f -> "cloud-heavy architecture, recent funding event"
          [] ~h /\ c /\ ~f -> "cloud-heavy architecture"
          [] ~h /\ ~c /\ f -> "recent funding event"
          [] ~h /\ ~c /\ ~f -> "limited timing signals"

\* C6: why_now is the ", "-joined list, in this order, of "active hiring surge"
\* (hiring_mentions > 0), "cloud-heavy architecture" (infra non-empty) and
\* "recent funding event" (funding); it is "limited timing signals" exactly when
\* none of the three applies, so scale_mentions and layoffs play no part.
C6_WhyNow ==
    Called("synthesis_agent") =>
        /\ synthesis.why_now = ExpectedWhyNow
        /\ synthesis.why_now = "limited timing signals"
              <=> (growth.hiring_mentions = 0 /\ infra = <<>> /\ ~fiscal.funding)

C6_Witness ==
    /\ Called("synthesis_agent")
    /\ growth.hiring_mentions > 0 /\ infra # <<>> /\ fiscal.funding
    /\ growth.scale_mentions > 2 /\ fiscal.layoffs
    /\ synthesis.why_now
         = "active hiring surge, cloud-heavy architecture, recent funding event"

NoFiscalSignals == fiscal = [funding |-> FALSE, layoffs |-> FALSE]

\* C7: in a run whose page fetch failed, recon is the sentinel (status 0, title
\* "Unknown", text "", headers ""), the run goes on to the remaining steps,
\* infra is [] and growth is {0, 0}; with fiscal {false, false} as well the
\* score is 0, the recommendation "NO" and outreach_strategy None.
C7_FailedFetchDegrades ==
    FetchFailed =>
        /\ recon = [status |-> 0, title |-> <<"U","n","k","n","o","w","n">>,
                    text |-> <<>>, headers |-> <<>>]
        /\ pc # "raised"
        /\ pc = "done" \/ ENABLED Next
        /\ Called("infra_agent") => infra = <<>>
        /\ Called("growth_agent")
              => growth = [hiring_mentions |-> 0, scale_mentions |-> 0]
        /\ (Called("synthesis_agent") /\ NoFiscalSignals)
              => synthesis.score = 0 /\ synthesis.recommendation = "NO"
        /\ (Called("outreach_agent") /\ NoFiscalSignals) => outreach = None
        /\ (pc = "done" /\ NoFiscalSignals) =>
              /\ report.strategic_analysis.lead_score = 0
              /\ report.verdict.recommendation = "NO"
              /\ report.outreach_strategy = None

C7_Witness ==
    /\ pc = "done"
    /\ FetchFailed
    /\ calls = StepOrder
    /\ NoFiscalSignals
    /\ report.strategic_analysis.lead_score = 0
    /\ report.outreach_strategy = None

ReconStartEntry == Entry("Recon Agent", "Starting website scan", <<>>, <<>>)

\* C8, as amended: one call of recon_agent appends exactly two entries whether
\* the fetch succeeds (the start entry, then the status entry) or fails (the
\* start entry, then the failure entry), and leaves the entries already in the
\* trace as they were.
C8_ReconAppendsTwo ==
    [][pc = "recon" =>
         /\ IsPrefix(trace, trace')
         /\ Len(trace') = Len(trace) + 2
         /\ trace'[Len(trace) + 1] = ReconStartEntry
         /\ trace'[Len(trace) + 2].agent = "Recon Agent"
         /\ trace'[Len(trace) + 2].msg
               = (IF recon' = RawPageSentinel THEN "Failed" ELSE "Status")]_vars

\* A failed fetch, called on a trace that held one entry: three entries now.
C8_Witness ==
    /\ calls = <<"recon_agent">>
    /\ recon = RawPageSentinel
    /\ Len(trace) = 3
    /\ trace[1].agent = "Caller"
    /\ trace[3].msg = "Failed"

\* C8 as claimed: two entries when the fetch succeeds, one when it fails.
C8_AsClaimed ==
    [][pc = "recon" =>
         /\ IsPrefix(trace, trace')
         /\ Len(trace') = Len(trace) + (IF recon' = RawPageSentinel THEN 1 ELSE 2)]_vars

\* C9, as amended: one call of infra_agent changes nothing but the trace, to
\* which it appends exactly two entries (its start entry, then the summary of
\* the list it returns), and one call of growth_agent likewise appends exactly
\* two (its start entry, then the counts); neither changes the RawPage or an
\* earlier entry.
C9_DetectorsAppendTwo ==
    [][/\ pc = "infra" =>
            /\ IsPrefix(trace, trace')
            /\ Len(trace') = Len(trace) + 2
            /\ trace'[Len(trace) + 1].msg = "Detecting cloud stack"
            /\ trace'[Len(trace) + 2] = Entry("Infrastructure Agent", "Found", <<>>, infra')
            /\ UNCHANGED <<SERPAPI_KEY, domain, recon, growth, fiscal, synthesis,
                           outreach, report>>
       /\ pc = "growth" =>
            /\ IsPrefix(trace, trace')
            /\ Len(trace') = Len(trace) + 2
            /\ trace'[Len(trace) + 1].msg = "Checking hiring & expansion signals"
            /\ trace'[Len(trace) + 2].nums
                  = <<growth'.hiring_mentions, growth'.scale_mentions>>
            /\ UNCHANGED <<SERPAPI_KEY, domain, recon, infra, fiscal, synthesis,
                           outreach, report>>]_vars

\* Both detectors ran on a fetched page, on a trace that held one entry.
C9_Witness ==
    /\ calls = <<"infra_agent", "growth_agent">>
    /\ Len(trace) = 5
    /\ trace[1].agent = "Caller"
    /\ infra = <<"Explicit Cloud Stack", "Inferred Cloud-Heavy SaaS">>
    /\ growth = [hiring_mentions |-> 2, scale_mentions |-> 1]

\* C9 as claimed: each detector appends exactly one entry.
C9_AsClaimed ==
    [][(pc \in {"infra", "growth"}) =>
          /\ IsPrefix(trace, trace')
          /\ Len(trace') = Len(trace) + 1]_vars

AgentOf(f) ==
    CASE f = "recon_agent" -> "Recon Agent"
      [] f = "infra_agent" -> "Infrastructure Agent"
      [] f = "growth_agent" -> "Growth Agent"
      [] f = "fiscal_agent" -> "Fiscal Agent"
      [] f = "synthesis_agent" -> "Synthesis Agent"
      [] f = "outreach_agent" -> "Outreach Agent"

\* The position in the step order of the step that wrote entry e.
StepOfEntry(e) == CHOOSE n \in 1..Len(StepOrder) : AgentOf(StepOrder[n]) = e.agent

\* C10: in every run, whether or not the fetch or the news search fails, the
\* steps recon, infra, growth, fiscal, synthesis, outreach are entered once each
\* in that order; the trace only grows by appends, and its entries lie in step
\* order, every step that ran having written at least one, and the report
\* returns the trace as it is.
C10_FixedOrder ==
    /\ [](/\ IsPrefix(calls, StepOrder)
          /\ pc \in {"return", "done"} => calls = StepOrder
          /\ \A i \in 1..Len(trace) : \A j \in i..Len(trace) :
                StepOfEntry(trace[i]) <= StepOfEntry(trace[j])
          /\ \A n \in 1..Len(calls) : \E i \in 1..Len(trace) :
                trace[i].agent = AgentOf(calls[n])
          /\ pc = "done" => report.agent_trace = trace)
    /\ [][IsPrefix(trace, trace')]_vars

\* A finished run in which the fetch timed out and outreach was skipped.
C10_Witness ==
    /\ pc = "done"
    /\ calls = StepOrder
    /\ \E i \in 1..Len(trace) : trace[i].strs = <<"Timeout">>
    /\ HasEntry(trace, "Outreach Agent", "Skipped")
    /\ Len(report.agent_trace) = 11

====
